---- MODULE Spec2Model ----
(***************************************************************************)
(* Model of scripts/hdbscan-python.py: a command-line adapter that parses  *)
(* four options, imports numpy and hdbscan, reads one JSON document from   *)
(* stdin, L2-normalises the embedding rows for the euclidean metric, calls *)
(* hdbscan.HDBSCAN(...).fit_predict and prints one JSON record.            *)
(*                                                                         *)
(* One behaviour of the model is one run of main().  The environment of a  *)
(* run (command line, importability of the two libraries, content of       *)
(* stdin) is fixed in Init; the labels the library returns are chosen when *)
(* fit_predict is called.  `trace` records, in order, every write to       *)
(* stdout and stderr and every call into the clustering library.           *)
(*                                                                         *)
(* Numbers.  Embedding components are integer multiples of a unit chosen   *)
(* so that the norm floor 1e-8 of line 46 is NormFloor units.  The matrix  *)
(* is float32 (line 41): the largest finite magnitude is F32Max units, and *)
(* any intermediate result above it is +inf, written F32Inf.  A norm is    *)
(* carried as its square, and a row divided by a norm is carried as the    *)
(* pair (numerators, square of the divisor), so no rounding is modelled:   *)
(* only the range of float32 is.                                           *)
(***************************************************************************)
EXTENDS Integers, Sequences, FiniteSets, TLC

\* ------------------------------------------------------------------ bounds
MaxRows == 2
MaxIds == 2
MaxLabel == 1

\* ------------------------------------------------------- program constants
DefaultMinClusterSize == 4
DefaultCoreDistNJobs == -1
DefaultMetric == "euclidean"
ImportErrorExit == 1
ArgparseErrorExit == 2
UncaughtExit == 1
NormFloor == 2
F32Max == 10

F32Inf == F32Max + 1
FloorSq == NormFloor * NormFloor

\* ------------------------------------------------------------ command line
\* An option of the command line: absent, or present with a value.
None == [given |-> FALSE, v |-> 0]
Some(n) == [given |-> TRUE, v |-> n]
NoStr == [given |-> FALSE, s |-> ""]
SomeStr(t) == [given |-> TRUE, s |-> t]

Cmd(mcs, ms, metric, jobs) ==
    [kind |-> "ok", min_cluster_size |-> mcs, min_samples |-> ms,
     metric |-> metric, core_dist_n_jobs |-> jobs]

\* "invalid": an unknown flag or a non-integer value (argparse calls
\* parser.error); "help": -h / --help (argparse prints the help and exits).
ArgvSet ==
    {Cmd(mcs, ms, NoStr, None) :
        mcs \in {None, Some(5)}, ms \in {None, Some(0), Some(3)}}
    \cup {Cmd(None, None, SomeStr("cosine"), Some(2)),
          Cmd(None, Some(3), SomeStr("euclidean"), Some(2)),
          Cmd(Some(5), None, SomeStr("cosine"), None)}
    \cup {[kind |-> k, min_cluster_size |-> None, min_samples |-> None,
           metric |-> NoStr, core_dist_n_jobs |-> None] :
             k \in {"invalid", "help"}}

\* parser.add_argument(..., default=...) and parser.parse_args()
ParseArgs(a) ==
    [min_cluster_size |-> IF a.min_cluster_size.given
                          THEN a.min_cluster_size.v ELSE DefaultMinClusterSize,
     min_samples |-> a.min_samples,
     metric |-> IF a.metric.given THEN a.metric.s ELSE DefaultMetric,
     core_dist_n_jobs |-> IF a.core_dist_n_jobs.given
                          THEN a.core_dist_n_jobs.v ELSE DefaultCoreDistNJobs]

\* Python's `a or b` for a : Optional[int]: None and 0 are both falsy.
PyOr(a, b) == IF a.given /\ a.v # 0 THEN a.v ELSE b

\* ------------------------------------------------------------------- stdin
IdAlphabet == {"a", "b"}

SeqsUpTo(S, n) == UNION {[1..k -> S] : k \in 0..n}

\* A JSON value found under 'ids': a list, or a scalar (which has no len()).
JList(items) == [list |-> TRUE, items |-> items]
JScalar == [list |-> FALSE, items |-> <<>>]

\* Rows of the 'embeddings' value.  <<0,0>> has norm 0, <<1,1>> a norm
\* below the floor, <<2,0>> the floor itself, <<3,0>> a norm above it whose
\* square is finite in float32, <<0,4>> a norm whose square overflows
\* float32, and <<3>> has another dimensionality.
EmbeddingRows == {<<0, 0>>, <<1, 1>>, <<2, 0>>, <<3, 0>>, <<0, 4>>, <<3>>}

Doc(k, i, e) == [kind |-> k, ids |-> i, embeddings |-> e]

\* kind "malformed": text json.load rejects (here a document cut short);
\* "no_ids": a document on which data['ids'] raises; "no_embeddings": one
\* on which data['embeddings'] raises; "ok": an object with both keys.
StdinSet ==
    {Doc("ok", JList(i), e) :
        i \in SeqsUpTo(IdAlphabet, MaxIds), e \in SeqsUpTo(EmbeddingRows, MaxRows)}
    \cup {Doc("ok", JScalar, <<<<3, 0>>>>)}
    \cup {Doc(k, JList(<<"a">>), <<<<3, 0>>>>) :
            k \in {"malformed", "no_ids", "no_embeddings"}}

\* faulty variant: a parser that accepts a document cut short
JsonLoadFails_Lenient(d) == FALSE
JsonLoadFails(d) == d.kind = "malformed"

\* ----------------------------------------------------------------- numpy
\* np.array(rows, dtype=np.float32): rows of unequal length are rejected;
\* no rows at all give a 1-d array of shape (0,).
Uniform(e) == \A i, j \in 1..Len(e) : Len(e[i]) = Len(e[j])
NpArray(e) ==
    [ndim |-> IF Len(e) = 0 THEN 1 ELSE 2,
     rows |-> [i \in 1..Len(e) |-> [num |-> e[i], denSq |-> 1]]]

Sat(x) == IF x > F32Max THEN F32Inf ELSE x

\* sum of squares of a row in float32: every square and every partial sum
\* saturates to +inf
RECURSIVE SumSqF32(_)
SumSqF32(r) ==
    IF Len(r) = 0 THEN 0
    ELSE Sat(Sat(Head(r) * Head(r)) + SumSqF32(Tail(r)))

\* np.linalg.norm(embeddings, axis=1, keepdims=True), as squares
NormSq(row) == SumSqF32(row.num)
\* np.clip(norms, 1e-8, None), as squares
ClipSq(n) == IF n < FloorSq THEN FloorSq ELSE n
\* row / norm: a finite row divided by +inf is the zero row
DivRow(row, nSq) ==
    IF nSq = F32Inf
    THEN [num |-> [j \in 1..Len(row.num) |-> 0], denSq |-> 1]
    ELSE [num |-> row.num, denSq |-> row.denSq * nSq]

Normalize(m) ==
    [ndim |-> m.ndim,
     rows |-> [i \in 1..Len(m.rows) |-> DivRow(m.rows[i], ClipSq(NormSq(m.rows[i])))]]

\* --------------------------------------------------------------- the record
RECURSIVE LabelsMax(_)
LabelsMax(l) ==
    IF Len(l) = 1 THEN l[1]
    ELSE IF Head(l) >= LabelsMax(Tail(l)) THEN Head(l) ELSE LabelsMax(Tail(l))

RECURSIVE CountEq(_, _)
CountEq(l, x) ==
    IF Len(l) = 0 THEN 0
    ELSE (IF Head(l) = x THEN 1 ELSE 0) + CountEq(Tail(l), x)

\* faulty variant: the largest label instead of the number of clusters
NClusters_OffByOne(l) == IF LabelsMax(l) >= 0 THEN LabelsMax(l) ELSE 0
NClusters(l) == IF LabelsMax(l) >= 0 THEN LabelsMax(l) + 1 ELSE 0
NNoise(l) == CountEq(l, -1)

\* faulty variant: noise points are left out of 'labels'
ResultRecord_DropNoise(l, i) ==
    [labels |-> SelectSeq(l, LAMBDA x : x # -1), ids |-> i,
     n_clusters |-> NClusters(l), n_noise |-> NNoise(l)]
\* faulty variant: 'ids' is cut to one identifier per label
ResultRecord_ZipIds(l, i) ==
    [labels |-> l,
     ids |-> [list |-> i.list,
              items |-> SubSeq(i.items, 1, IF Len(l) < Len(i.items)
                                           THEN Len(l) ELSE Len(i.items))],
     n_clusters |-> NClusters(l), n_noise |-> NNoise(l)]
ResultRecord(l, i) ==
    [labels |-> l, ids |-> i, n_clusters |-> NClusters(l), n_noise |-> NNoise(l)]

\* faulty variant: the error object carries a second key
MissingDependency_WithCode(mod) ==
    [error |-> <<"Missing dependency", mod>>, code |-> 1]
MissingDependency(mod) == [error |-> <<"Missing dependency", mod>>]

\* ------------------------------------------------------------ trace entries
OutJson(d) == [stream |-> "stdout", json |-> TRUE, doc |-> d]
OutText(t) == [stream |-> "stdout", json |-> FALSE, text |-> t]
Err(k, t) == [stream |-> "stderr", kind |-> k, line |-> t]
Traceback(exc) == Err("fault", <<"Traceback", exc>>)
LibCall(c) == [stream |-> "lib", call |-> c]

\* faulty variant: the configuration echo goes to stdout (file=sys.stderr forgotten)
ConfigLines_Stdout(i, a, ms) ==
    << OutText("Clustering"), OutText("min_cluster_size"), OutText("min_samples"),
       OutText("metric"), OutText("core_dist_n_jobs") >>
\* faulty variant: the echo of core_dist_n_jobs is missing
ConfigLines_Four(i, a, ms) ==
    << Err("config", <<"Clustering", ToString(Len(i.items))>>),
       Err("config", <<"min_cluster_size", ToString(a.min_cluster_size)>>),
       Err("config", <<"min_samples", ToString(ms)>>),
       Err("config", <<"metric", a.metric>>) >>
ConfigLines(i, a, ms) ==
    << Err("config", <<"Clustering", ToString(Len(i.items))>>),
       Err("config", <<"min_cluster_size", ToString(a.min_cluster_size)>>),
       Err("config", <<"min_samples", ToString(ms)>>),
       Err("config", <<"metric", a.metric>>),
       Err("config", <<"core_dist_n_jobs", ToString(a.core_dist_n_jobs)>>) >>

\* faulty variant: the summary goes to stdout (file=sys.stderr forgotten)
SummaryLine_Stdout(r) == OutText("Found")
SummaryLine(r) ==
    Err("summary", <<"Found", ToString(r.n_clusters), ToString(r.n_noise)>>)

Stdout(t) == SelectSeq(t, LAMBDA e : e.stream = "stdout")
Stderr(t) == SelectSeq(t, LAMBDA e : e.stream = "stderr")

\* ------------------------------------------------------------------- state
VARIABLES argv, libs, stdin, pc, args, min_samples, imported, ids,
          embeddings, clusterer, fitArg, labels, result, trace, exitCode

vars == <<argv, libs, stdin, pc, args, min_samples, imported, ids,
          embeddings, clusterer, fitArg, labels, result, trace, exitCode>>

env == <<argv, libs, stdin>>

Terminal == {"returned", "exited", "crashed"}

NoClusterer == [constructed |-> FALSE, min_cluster_size |-> 0, min_samples |-> 0,
                metric |-> "", core_dist_n_jobs |-> 0]
NoFit == [called |-> FALSE, X |-> <<>>]

Init ==
    /\ argv \in ArgvSet
    /\ libs \in {"ok", "numpy", "hdbscan"}
    /\ stdin \in StdinSet
    /\ pc = "parse_args"
    /\ args = ParseArgs(Cmd(None, None, NoStr, None))
    /\ min_samples = 0
    /\ imported = "pending"
    /\ ids = JScalar
    /\ embeddings = NpArray(<<>>)
    /\ clusterer = NoClusterer
    /\ fitArg = NoFit
    /\ labels = <<>>
    /\ result = ResultRecord(<<-1>>, JScalar)
    /\ trace = <<>>
    /\ exitCode = 0

\* an uncaught exception: the interpreter prints the traceback to stderr
\* and exits with status 1
Raise(exc) ==
    /\ trace' = Append(trace, Traceback(exc))
    /\ exitCode' = UncaughtExit
    /\ pc' = "crashed"

\* lines 17-24
DoParseArgs ==
    /\ pc = "parse_args"
    /\ IF argv.kind = "invalid"
       THEN /\ trace' = Append(trace, Err("usage", <<"usage", "error">>))
            /\ exitCode' = ArgparseErrorExit
            /\ pc' = "exited"
            /\ args' = args
       ELSE IF argv.kind = "help"
       THEN /\ trace' = Append(trace, OutText("usage"))
            /\ exitCode' = 0
            /\ pc' = "exited"
            /\ args' = args
       ELSE /\ args' = ParseArgs(argv)
            /\ pc' = "min_samples"
            /\ UNCHANGED <<trace, exitCode>>
    /\ UNCHANGED <<env, min_samples, imported, ids, embeddings, clusterer,
                   fitArg, labels, result>>

\* line 26
DoMinSamples ==
    /\ pc = "min_samples"
    /\ min_samples' = PyOr(args.min_samples, args.min_cluster_size)
    /\ pc' = "import"
    /\ UNCHANGED <<env, args, imported, ids, embeddings, clusterer, fitArg,
                   labels, result, trace, exitCode>>

\* lines 29-36
DoImport ==
    /\ pc = "import"
    /\ IF libs = "ok"
       THEN /\ imported' = "ok"
            /\ pc' = "read"
            /\ UNCHANGED <<trace, exitCode>>
       ELSE /\ imported' = "failed"
            /\ trace' = Append(trace, OutJson(MissingDependency(libs)))
            /\ exitCode' = ImportErrorExit
            /\ pc' = "exited"
    /\ UNCHANGED <<env, args, min_samples, ids, embeddings, clusterer, fitArg,
                   labels, result>>

\* lines 39-41
DoRead ==
    /\ pc = "read"
    /\ IF JsonLoadFails(stdin)
       THEN Raise("JSONDecodeError") /\ UNCHANGED <<ids, embeddings>>
       ELSE IF stdin.kind = "no_ids"
       THEN Raise("KeyError") /\ UNCHANGED <<ids, embeddings>>
       ELSE IF stdin.kind = "no_embeddings"
       THEN Raise("KeyError") /\ ids' = stdin.ids /\ UNCHANGED embeddings
       ELSE IF ~Uniform(stdin.embeddings)
       THEN Raise("ValueError") /\ ids' = stdin.ids /\ UNCHANGED embeddings
       ELSE /\ ids' = stdin.ids
            /\ embeddings' = NpArray(stdin.embeddings)
            /\ pc' = "normalize"
            /\ UNCHANGED <<trace, exitCode>>
    /\ UNCHANGED <<env, args, min_samples, imported, clusterer, fitArg,
                   labels, result>>

\* lines 44-46
DoNormalize ==
    /\ pc = "normalize"
    /\ IF args.metric = "euclidean"
       THEN IF embeddings.ndim = 1
            THEN Raise("AxisError") /\ UNCHANGED embeddings
            ELSE /\ embeddings' = Normalize(embeddings)
                 /\ pc' = "progress"
                 /\ UNCHANGED <<trace, exitCode>>
       ELSE /\ pc' = "progress"
            /\ UNCHANGED <<embeddings, trace, exitCode>>
    /\ UNCHANGED <<env, args, min_samples, imported, ids, clusterer, fitArg,
                   labels, result>>

\* lines 48-52
DoProgress ==
    /\ pc = "progress"
    /\ IF ~ids.list
       THEN Raise("TypeError")
       ELSE /\ trace' = trace \o ConfigLines(ids, args, min_samples)
            /\ pc' = "construct"
            /\ UNCHANGED exitCode
    /\ UNCHANGED <<env, args, min_samples, imported, ids, embeddings,
                   clusterer, fitArg, labels, result>>

\* lines 55-60
DoConstruct ==
    /\ pc = "construct"
    /\ clusterer' = [constructed |-> TRUE,
                     min_cluster_size |-> args.min_cluster_size,
                     min_samples |-> min_samples,
                     metric |-> args.metric,
                     core_dist_n_jobs |-> args.core_dist_n_jobs]
    /\ trace' = Append(trace, LibCall("HDBSCAN"))
    /\ pc' = "fit_predict"
    /\ UNCHANGED <<env, args, min_samples, imported, ids, embeddings, fitArg,
                   labels, result, exitCode>>

\* line 62: the library returns one label per row, or raises
DoFitPredict ==
    /\ pc = "fit_predict"
    /\ fitArg' = [called |-> TRUE, X |-> embeddings.rows]
    /\ \/ /\ \E l \in [1..Len(embeddings.rows) -> -1..MaxLabel] : labels' = l
          /\ trace' = Append(trace, LibCall("fit_predict"))
          /\ pc' = "result"
          /\ UNCHANGED exitCode
       \/ /\ trace' = trace \o <<LibCall("fit_predict"), Traceback("LibraryError")>>
          /\ exitCode' = UncaughtExit
          /\ pc' = "crashed"
          /\ UNCHANGED labels
    /\ UNCHANGED <<env, args, min_samples, imported, ids, embeddings,
                   clusterer, result>>

\* lines 65-70: labels.max() of an empty array raises
DoResult ==
    /\ pc = "result"
    /\ IF Len(labels) = 0
       THEN Raise("ValueError") /\ UNCHANGED result
       ELSE /\ result' = ResultRecord(labels, ids)
            /\ pc' = "summary"
            /\ UNCHANGED <<trace, exitCode>>
    /\ UNCHANGED <<env, args, min_samples, imported, ids, embeddings,
                   clusterer, fitArg, labels>>

\* lines 72-73
DoSummary ==
    /\ pc = "summary"
    /\ trace' = Append(trace, SummaryLine(result))
    /\ pc' = "emit"
    /\ UNCHANGED <<env, args, min_samples, imported, ids, embeddings,
                   clusterer, fitArg, labels, result, exitCode>>

\* lines 75-78: the record is printed, main() returns, exit status 0
DoEmit ==
    /\ pc = "emit"
    /\ trace' = Append(trace, OutJson(result))
    /\ exitCode' = 0
    /\ pc' = "returned"
    /\ UNCHANGED <<env, args, min_samples, imported, ids, embeddings,
                   clusterer, fitArg, labels, result>>

Next ==
    \/ DoParseArgs
    \/ DoMinSamples
    \/ DoImport
    \/ DoRead
    \/ DoNormalize
    \/ DoProgress
    \/ DoConstruct
    \/ DoFitPredict
    \/ DoResult
    \/ DoSummary
    \/ DoEmit

Spec == Init /\ [][Next]_vars

TypeOK ==
    /\ pc \in {"parse_args", "min_samples", "import", "read", "normalize",
               "progress", "construct", "fit_predict", "result", "summary",
               "emit"} \cup Terminal
    /\ imported \in {"pending", "ok", "failed"}
    /\ exitCode \in {0, 1, 2}

\* ------------------------------------------------------------------ claims
Success == pc = "returned"
Out == Stdout(trace)
JsonOut == SelectSeq(Out, LAMBDA e : e.json)
Record == Out[1].doc
InItems == stdin.ids.items
LibAt == {i \in 1..Len(trace) : trace[i].stream = "lib"}
ErrAt == {i \in 1..Len(trace) :
            trace[i].stream = "stderr" /\ trace[i].kind \in {"config", "summary"}}
ErrBefore == {i \in ErrAt : \A j \in LibAt : i < j}
ErrAfter == {i \in ErrAt : \A j \in LibAt : i > j}

\* C1: whenever the import of numpy or hdbscan has failed, the run has ended
\* with exit code 1 and stdout holds exactly one line, a JSON object whose
\* only key is 'error' and whose value is the missing-dependency message,
\* whatever the command line and the content of stdin.
C1_ImportFailure ==
    imported = "failed" =>
        /\ pc = "exited"
        /\ exitCode = 1
        /\ Len(Out) = 1
        /\ Out[1].json
        /\ DOMAIN Out[1].doc = {"error"}
        /\ Out[1].doc.error[1] = "Missing dependency"
C1_Witness ==
    /\ imported = "failed"
    /\ stdin.kind = "malformed"
    /\ argv.min_samples.given

\* C2 (as stated): when stdin is not well-formed JSON the run ends with a
\* non-zero exit code and no JSON on stdout, whatever the options and the
\* availability of the libraries.
C2_Original ==
    (pc \in Terminal /\ stdin.kind = "malformed") =>
        (exitCode # 0 /\ JsonOut = <<>>)
\* C2 (amended): when json.load rejects stdin, every run whose command line
\* does not ask for help and whose import of numpy and hdbscan does not fail
\* ends with a non-zero exit code and no JSON on stdout.
C2_Amended ==
    (pc \in Terminal /\ stdin.kind = "malformed"
        /\ argv.kind # "help" /\ imported # "failed") =>
        (exitCode # 0 /\ JsonOut = <<>>)
C2_Witness ==
    /\ pc = "crashed"
    /\ stdin.kind = "malformed"
    /\ imported = "ok"

\* C3: when the input has as many ids as embedding rows (rows of equal
\* dimensionality), the 'labels' of the output record is as long as its 'ids',
\* for every label array the library returns.
C3_LabelsAsLongAsIds ==
    (Success /\ Len(InItems) = Len(stdin.embeddings)) =>
        Len(Record.labels) = Len(Record.ids.items)
C3_Witness ==
    /\ Success
    /\ Len(InItems) = 2
    /\ Len(stdin.embeddings) = 2
    /\ \E i \in 1..Len(labels) : labels[i] = -1

\* C4: for the label array the library returned, the output record has
\* n_clusters = max(labels)+1 if some label is >= 0 and 0 otherwise, and
\* n_noise = the number of labels equal to -1; both are >= 0 and
\* n_clusters = 0 exactly when no label is >= 0.
C4_Counts ==
    Success =>
        LET NonNeg == {i \in 1..Len(labels) : labels[i] >= 0}
            Noise == {i \in 1..Len(labels) : labels[i] = -1}
        IN /\ NonNeg # {} =>
                \E i \in NonNeg :
                    /\ \A j \in 1..Len(labels) : labels[j] <= labels[i]
                    /\ Record.n_clusters = labels[i] + 1
           /\ NonNeg = {} => Record.n_clusters = 0
           /\ Record.n_noise = Cardinality(Noise)
           /\ Record.n_clusters >= 0
           /\ Record.n_noise >= 0
           /\ Record.n_clusters = 0 <=> NonNeg = {}
C4_Witness ==
    /\ Success
    /\ Len(labels) = 2
    /\ labels[1] = -1
    /\ labels[2] = 1

\* C5: in a successful run stdout receives exactly one write, the JSON output
\* record, and that write is the last one of the run: every stderr write
\* precedes it and no stdout write precedes it.
C5_OneRecordLast ==
    Success =>
        /\ Len(Out) = 1
        /\ Out[1].json
        /\ Out[1].doc = result
        /\ trace[Len(trace)].stream = "stdout"
        /\ \A i \in 1..(Len(trace) - 1) : trace[i].stream # "stdout"
C5_Witness ==
    /\ Success
    /\ Len(Stderr(trace)) > 1
    /\ Len(Out) = 1

\* C6 (as stated): the library is constructed with exactly the values given on
\* the command line; min_samples differs from the value of --min-samples only
\* when the flag is omitted, and then equals min-cluster-size; omitted options
\* default to 4, 'euclidean' and -1.
C6_Verbatim ==
    clusterer.constructed =>
        /\ clusterer.min_cluster_size =
              (IF argv.min_cluster_size.given THEN argv.min_cluster_size.v ELSE 4)
        /\ clusterer.min_samples =
              (IF argv.min_samples.given THEN argv.min_samples.v
               ELSE clusterer.min_cluster_size)
        /\ clusterer.metric =
              (IF argv.metric.given THEN argv.metric.s ELSE "euclidean")
        /\ clusterer.core_dist_n_jobs =
              (IF argv.core_dist_n_jobs.given THEN argv.core_dist_n_jobs.v ELSE -1)

\* C7: a JSON error object is on stdout only when the import failed; every
\* other failing run (invalid command line, malformed JSON, missing key,
\* non-uniform rows, library fault) leaves stdout empty and exits non-zero;
\* stdout never holds more than one JSON document.
C7_ErrorObjectOnlyOnImportFailure ==
    /\ \A i \in 1..Len(Out) :
          (Out[i].json /\ "error" \in DOMAIN Out[i].doc) => imported = "failed"
    /\ (pc \in {"crashed", "exited"} /\ imported # "failed" /\ argv.kind # "help") =>
          (Out = <<>> /\ exitCode # 0)
    /\ Len(JsonOut) <= 1
C7_Witness ==
    /\ pc = "crashed"
    /\ fitArg.called
    /\ Len(Stderr(trace)) > 1

\* C8: in a successful run the 'ids' of the output record is the 'ids' of the
\* input document: same elements, same order, same length, also when the
\* number of ids differs from the number of embedding rows.
C8_IdsEchoed ==
    Success => Record.ids = stdin.ids
C8_Witness ==
    /\ Success
    /\ Len(InItems) = 2
    /\ InItems[1] # InItems[2]
    /\ Len(stdin.embeddings) = 1
    /\ args.metric = "euclidean"

\* exact arithmetic on the rows handed to the library
RECURSIVE SumSq(_)
SumSq(r) == IF Len(r) = 0 THEN 0 ELSE Head(r) * Head(r) + SumSq(Tail(r))
MaxOf(a, b) == IF a >= b THEN a ELSE b
\* num/sqrt(denSq) = r/sqrt(d), componentwise
SameRow(x, r, d) ==
    /\ Len(x.num) = Len(r)
    /\ \A j \in 1..Len(r) :
          /\ x.num[j] * x.num[j] * d = r[j] * r[j] * x.denSq
          /\ (x.num[j] > 0) = (r[j] > 0)
UnitNorm(x) == SumSq(x.num) = x.denSq

\* C9 (as stated): the matrix handed to the library is normalised exactly
\* when the metric is 'euclidean': then every row is the input row divided by
\* max(norm, 1e-8), so it has norm 1 unless its norm was at or below 1e-8;
\* for any other metric the rows are handed over unchanged.
C9_Normalized ==
    fitArg.called =>
        /\ Len(fitArg.X) = Len(stdin.embeddings)
        /\ \A i \in 1..Len(fitArg.X) :
              LET r == stdin.embeddings[i]
              IN IF args.metric = "euclidean"
                 THEN /\ SameRow(fitArg.X[i], r, MaxOf(SumSq(r), FloorSq))
                      /\ SumSq(r) > FloorSq => UnitNorm(fitArg.X[i])
                 ELSE fitArg.X[i] = [num |-> r, denSq |-> 1]

\* C10 (as stated): a successful run writes three or four progress lines to
\* stderr, at least one before the library call and at least one after it.
C10_Original ==
    Success =>
        /\ Cardinality(ErrAt) \in {3, 4}
        /\ Cardinality(ErrBefore) >= 1
        /\ Cardinality(ErrAfter) >= 1
\* C10 (amended): a successful run writes six progress messages to stderr:
\* five before the library is called (the configuration) and one after it
\* (the result summary).
C10_Amended ==
    Success =>
        /\ Cardinality(ErrAt) = 6
        /\ Cardinality(ErrBefore) = 5
        /\ Cardinality(ErrAfter) = 1
        /\ \A i \in ErrBefore : trace[i].kind = "config"
        /\ \A i \in ErrAfter : trace[i].kind = "summary"
C10_Witness ==
    /\ Success
    /\ Cardinality(LibAt) = 2
    /\ Cardinality(ErrAfter) = 1
====
